---- MODULE Spec2Model ----
(***************************************************************************)
(* BenchPress / CLgen: masked-LM data generation, inference-time sample    *)
(* feed update and feature-space candidate selection.                      *)
(*                                                                         *)
(* Sequences are TLA+ sequences (1-based); every position, offset and      *)
(* index the program computes is kept as the 0-based Python value and the  *)
(* Py* operators below translate list indexing and slicing.                *)
(***************************************************************************)
EXTENDS Integers, Sequences, FiniteSets, TLC

(***************************************************************************)
(* Bounds of the model.                                                    *)
(***************************************************************************)
\* len(seq) of the sequences fed to the maskers (training_opts.sequence_length)
SeqLen == 6
\* config.hole.hole_length: the distributions sample in [0, hole_length]
MaxHoleLen == 2
\* largest max_predictions_per_seq a dataset configuration carries
MaxPredictions == 4
\* training_opts.max_predictions_per_seq of the modelled training run
TrainPredictions == 2

(***************************************************************************)
(* Vocabulary: the atomizer's reserved token ids and the ordinary tokens.  *)
(***************************************************************************)
padToken == 0
holeToken == 1
maskToken == 2
endholeToken == 3
endToken == 4
FirstWord == 5
\* the ordinary token the corpus holds at 0-based position i
Word(i) == FirstWord + i
metaTokens == {padToken, holeToken, maskToken, endholeToken, endToken}
vocab_size == FirstWord + SeqLen

(***************************************************************************)
(* Python list semantics.                                                  *)
(***************************************************************************)
Min(a, b) == IF a < b THEN a ELSE b
Max(a, b) == IF a > b THEN a ELSE b

\* xs[i] is defined (no IndexError) for -len <= i < len
PyInRange(xs, i) == i >= 0 - Len(xs) /\ i < Len(xs)
\* xs[i], negative i counting from the end
PyGet(xs, i) == IF i < 0 THEN xs[Len(xs) + i + 1] ELSE xs[i + 1]
\* a slice bound clamped the way list slicing clamps it
PyNorm(n, i) == IF i < 0 THEN Max(n + i, 0) ELSE Min(i, n)
\* xs[a:b]
PySlice(xs, a, b) == SubSeq(xs, PyNorm(Len(xs), a) + 1, PyNorm(Len(xs), b))
\* xs[a:]
PyFrom(xs, a) == SubSeq(xs, PyNorm(Len(xs), a) + 1, Len(xs))
\* xs[:b]
PyUpto(xs, b) == SubSeq(xs, 1, PyNorm(Len(xs), b))
\* t in xs
PyIn(t, xs) == \E k \in 1..Len(xs) : xs[k] = t
\* xs.index(t) / np.where(xs == t)[0][0], for t in xs
PyIndexOf(xs, t) == (CHOOSE k \in 1..Len(xs) : xs[k] = t /\ \A j \in 1..(k - 1) : xs[j] # t) - 1
\* xs.count(t)
PyCount(xs, t) == Cardinality({k \in 1..Len(xs) : xs[k] = t})
\* list(reversed(xs)) / np.flip(xs)
PyReversed(xs) == [k \in 1..Len(xs) |-> xs[Len(xs) + 1 - k]]
\* [t] * n (empty for n <= 0)
PyRepeat(t, n) == [k \in 1..Max(n, 0) |-> t]
\* int(round(num / den)) for num >= 0, den > 0: Python 3 rounds half to even
PyRound(num, den) ==
  LET q == num \div den
      r == num % den
  IN  IF 2 * r > den \/ (2 * r = den /\ q % 2 = 1) THEN q + 1 ELSE q

(***************************************************************************)
(* random.Random(seed): the generator state is a number in 0..RngPeriod-1, *)
(* every call advances it, and every value drawn is a function of it.      *)
(***************************************************************************)
RngPeriod == 24
RngNext(s) == (13 * s + 7) % RngPeriod
\* rngen.random() < 0.8
RngBelow08(s) == 10 * s < 8 * RngPeriod
\* rngen.random() < 0.5
RngBelow05(s) == 2 * s < RngPeriod
\* rngen.random() > 0.5
RngAbove05(s) == 2 * s > RngPeriod
\* rngen.randint(0, n - 1)
RngRandint(s, n) == s % n

RECURSIVE ShuffleFrom(_, _, _)
\* random.shuffle: for i = len-1 down to 1 swap x[i] with x[randbelow(i+1)]
ShuffleFrom(x, i, r) ==
  IF i < 1 THEN x
  ELSE LET j == r % (i + 1)
           y == [x EXCEPT ![i + 1] = x[j + 1], ![j + 1] = x[i + 1]]
       IN  ShuffleFrom(y, i - 1, r \div (i + 1))
Shuffle(x, s) == ShuffleFrom(x, Len(x) - 1, s)

\* np.arange(lo, hi)
Arange(lo, hi) == [k \in 1..Max(hi - lo, 0) |-> lo + k - 1]


(***************************************************************************)
(* State.                                                                  *)
(***************************************************************************)
VARIABLES
  \* MaskLMBatchGenerator: which module's maskers run, its options, its rngen
  impl, training_opts, rngen,
  \* the _maskCorpus call in progress: its dataset configuration and kernel
  call, kernel,
  \* position in the masker and the exception it raised, if any
  pc, raised,
  \* locals of _holeSequence / _maskSequence
  actual_length, candidate_indexes, holes_to_predict, reverse_sequence,
  input_ids, masked_lms, offset_idxs, visited_indices, total_predictions,
  \* distribution.sample_counter
  sample_counter,
  \* the MaskSequence returned, the number of generators built with the same
  \* options so far, and what the first of them returned
  result, builds, first_result,
  \* the sampler (start text, sequence_length, batch_size) and the model's
  \* max_position_embeddings
  sampler, max_position_embeddings,
  \* self.sampleBatch and self.sampleIndices
  sampleBatch, sampleIndices,
  \* position in the inference loop, the exception that ended it, the
  \* inference input sample_gen yielded last, the updates made so far
  sample_pc, sample_raised, yielded, steps,
  \* the slots for which the last updateSampleBatch call logged "Cropped {}
  \* tokens from sample batch", one flag per slot it went through
  warnings,
  \* topK_candidates: its arguments, its position, the list it returned
  candidates, K, topk_pc, selected,
  \* calculate_distance: the sampler's target benchmark, the feature map of
  \* the candidate, the position in the call, what it returned or raised
  target_benchmark, infeat, distance_pc, distance, distance_raised,
  \* QueryByCommittee.entropy: the committee's predictions for one sample, the
  \* position in the call, the entropy returned
  labels, entropy_pc, ent,
  \* Distribution: the sampler built from the hole configuration, the position
  \* in sample(), its local 'sample', the redraws of this call, sample_counter
  distribution, dist_pc, sampled, redraws, dist_counter,
  \* _maskCorpus: idx, the number of kernels of the corpus masked before this one
  corpus_idx,
  \* http_server: handler.read_queue, handler.write_queues, handler.reject_queues,
  \* handler.backlog, the read_message requests being served (one per server
  \* thread), the results read_message responses carried so far, the backlog
  \* get_backlog returned last, the entries written so far
  read_queue, write_queues, reject_queues, backlog, requests, responses, served, written,
  \* ThreadedIterator: the wrapped iterator, max_queue_size, whether the thread
  \* was started, self._queue, the elements the worker took from the iterator,
  \* the positions of worker() and of __iter__, the values yielded to the
  \* consumer, the exception raised in the consumer
  iterator, max_queue_size, started, queue, produced, worker_pc, consumer_pc, received, consumer_raised

genVars == <<impl, training_opts, rngen>>
callVars == <<call, kernel>>
localVars == <<actual_length, candidate_indexes, holes_to_predict, reverse_sequence,
               input_ids, masked_lms, offset_idxs, visited_indices, total_predictions>>
maskVars == <<genVars, callVars, pc, raised, localVars, sample_counter, result,
              builds, first_result>>

sampleVars == <<sampler, max_position_embeddings, sampleBatch, sampleIndices,
                sample_pc, sample_raised, yielded, steps, warnings>>
topkVars == <<candidates, K, topk_pc, selected>>
featVars == <<target_benchmark, infeat, distance_pc, distance, distance_raised>>
entVars == <<labels, entropy_pc, ent>>
distVars == <<distribution, dist_pc, sampled, redraws, dist_counter>>
corpusVars == <<corpus_idx>>
serverVars == <<read_queue, write_queues, reject_queues, backlog, requests, responses, served, written>>
iterVars == <<iterator, max_queue_size, started, queue, produced, worker_pc, consumer_pc, received, consumer_raised>>
\* the components added to the generator, the inference loop and the selection
auxVars == <<featVars, entVars, distVars, corpusVars, serverVars, iterVars>>

None == [none |-> TRUE]

(***************************************************************************)
(* Inputs.                                                                 *)
(***************************************************************************)
\* masked_lm_prob values, as <<numerator, denominator>>
Probs == {<<1, 2>>, <<1, 1>>}

\* k ordinary tokens followed by tail, cut or padded to SeqLen
Kernel(k, tail) ==
  LET body == [i \in 1..k |-> Word(i - 1)] \o tail
  IN  [i \in 1..SeqLen |-> IF i <= Len(body) THEN body[i] ELSE padToken]

\* Encoded kernels: ordinary tokens then padding; the same closed by the end
\* token; and one with a pad token inside the content.
Kernels ==
  {Kernel(k, <<>>) : k \in 0..SeqLen}
    \cup {Kernel(k, <<endToken>>) : k \in 0..(SeqLen - 1)}
    \cup {Kernel(1, <<padToken, Word(2)>>)}

\* The arrays handed to the maskers: one-dimensional kernels, and a
\* two-dimensional array (a batch passed by mistake).
Inputs ==
  {[ndim |-> 1, seq |-> k] : k \in Kernels} \cup {[ndim |-> 2, seq |-> <<>>]}

\* Dataset configurations: config = None (the training set, whose
\* max_predictions is the training option) or a validation set with its own
\* max_predictions_per_seq; target is the field the configuration carries.
\* use_start_end is an argument of the tf_bert _holeSequence only, and
\* random_placed_mask a field of the mask configuration only.
Calls(im) ==
  [target : {"hole"}, max_predictions : 1..MaxPredictions,
   use_start_end : IF im = "tf" THEN BOOLEAN ELSE {FALSE},
   random_placed_mask : {FALSE}]
    \cup [target : {"mask"}, max_predictions : 1..MaxPredictions,
          use_start_end : {FALSE}, random_placed_mask : BOOLEAN]

(***************************************************************************)
(* _holeSequence, data_generators.py and tf_bert/data_generator.py.        *)
(***************************************************************************)
\* "Actual length represents the sequence length before pad begins"
ActualLength(im, use_start_end, s) ==
  IF im = "tf"
  THEN IF use_start_end
       THEN IF PyIn(endToken, s)
            THEN [err |-> "none", val |-> PyIndexOf(s, endToken)]
            ELSE [err |-> "IndexError", val |-> 0]
       \* "elif padToken in seq": padToken is not a name of that module
       ELSE [err |-> "NameError", val |-> 0]
  ELSE IF PyIn(padToken, s)
       THEN [err |-> "none", val |-> PyIndexOf(s, padToken)]
       ELSE [err |-> "none", val |-> Len(s)]

\* np.arange(actual_length), or np.arange(1, actual_length) with start/end tokens
CandidateRange(im, use_start_end, n) ==
  IF im = "tf" /\ use_start_end THEN Arange(1, n) ELSE Arange(0, n)

\* max(1, int(round(actual_length * masked_lm_prob))), max_predictions left
\* out (C23 is tested against it)
UncappedHoles(max_predictions, n, prob) == Max(1, PyRound(n * prob[1], prob[2]))

\* min(max_predictions, max(1, int(round(actual_length * masked_lm_prob))))
HolesToPredict(max_predictions, n, prob) ==
  Min(max_predictions, Max(1, PyRound(n * prob[1], prob[2])))

RECURSIVE LoopHead(_, _, _, _, _, _)
\* The head of "for pos_index in candidate_indexes": the candidates left once
\* the break and the two continue branches have been taken, starting with the
\* one that is holed next; empty when the loop is over.
LoopHead(cands, total, htp, visited, offs, n) ==
  IF cands = <<>> THEN <<>>
  ELSE LET pos == Head(cands)
       IN  IF total >= htp THEN <<>>
           ELSE IF pos \in visited \/ pos + offs[pos + 1] > n
                THEN LoopHead(Tail(cands), total, htp, visited, offs, n)
                ELSE cands

\* "make sure hole length does not run over input_id_idx bounds"
ClampHole(im, drawn, ids, n_actual, idx) ==
  IF im = "tf" THEN Min(drawn, n_actual - idx) ELSE Min(drawn, Len(ids) - idx)

\* "Confirm there is no conflict with another hole, further down the sequence":
\* the first i in range(hole_length) whose token is a hole, else hole_length;
\* an IndexError when input_ids[idx + i] is out of range before that.
ScanHole(ids, idx, hl) ==
  LET stop == {i \in 0..(hl - 1) :
                 ~PyInRange(ids, idx + i) \/ PyGet(ids, idx + i) = holeToken}
  IN  IF stop = {} THEN [err |-> "none", len |-> hl]
      ELSE LET i == CHOOSE x \in stop : \A y \in stop : x <= y
           IN  IF PyInRange(ids, idx + i)
               THEN [err |-> "none", len |-> i]
               ELSE [err |-> "IndexError", len |-> 0]

\* a splice that puts the hole token in and takes no token out (C22 is
\* tested against it)
SpliceKeepingRun(ids, idx, hl) == PyUpto(ids, idx) \o <<holeToken>> \o PyFrom(ids, idx)

\* input_ids[:idx] + [holeToken] + input_ids[idx + hole_length:]
Splice(ids, idx, hl) == PyUpto(ids, idx) \o <<holeToken>> \o PyFrom(ids, idx + hl)

\* offset_idxs[pos_index:] += 1 - hole_length: the hole site shifted with
\* the positions after it (C19 is tested against it)
ShiftFromSite(offs, pos, hl) ==
  [k \in 1..Len(offs) |-> IF k - 1 >= pos THEN offs[k] + 1 - hl ELSE offs[k]]

\* offset_idxs[pos_index + 1:] += 1 - hole_length
ShiftOffsets(offs, pos, hl) ==
  [k \in 1..Len(offs) |-> IF k - 1 > pos THEN offs[k] + 1 - hl ELSE offs[k]]

\* the per-iteration check that every target still points at a hole token
TargetsOnHoles(lms, offs, ids) ==
  IF \E k \in 1..Len(lms) : ~PyInRange(ids, lms[k].pos_index + offs[lms[k].pos_index + 1])
  THEN "IndexError"
  ELSE IF \E k \in 1..Len(lms) :
            PyGet(ids, lms[k].pos_index + offs[lms[k].pos_index + 1]) # holeToken
       THEN "AssertionError"
       ELSE "none"

\* distribution.register(actual_sample)
Register(counter, v) ==
  IF v \in DOMAIN counter
  THEN [counter EXCEPT ![v] = @ + 1]
  ELSE [x \in DOMAIN counter \cup {v} |-> IF x = v THEN 1 ELSE counter[x]]


\* lm.pos_index = lm.pos_index + offset_idxs[lm.pos_index]
OffsetTargets(lms, offs) ==
  [k \in 1..Len(lms) |-> [lms[k] EXCEPT !.pos_index = @ + offs[@ + 1]]]

\* lm.pos_index = len(input_ids) - 1 - lm.pos_index, after un-reversing
MirrorTargets(lms, n) ==
  [k \in 1..Len(lms) |-> [lms[k] EXCEPT !.pos_index = n - 1 - @]]

\* "assert input_ids[lm.pos_index] == holeToken" over every target
AssertOnHoles(lms, ids) ==
  IF \E k \in 1..Len(lms) : ~PyInRange(ids, lms[k].pos_index) THEN "IndexError"
  ELSE IF \E k \in 1..Len(lms) : PyGet(ids, lms[k].pos_index) # holeToken
       THEN "AssertionError"
       ELSE "none"

\* while len(input_ids) < len(seq): input_ids.append(padToken)
PadToLength(ids, n) == ids \o PyRepeat(padToken, n - Len(ids))

RECURSIVE InsertByPos(_, _)
\* x placed after every entry whose pos_index is not larger (a stable sort)
InsertByPos(sorted, x) ==
  IF sorted = <<>> THEN <<x>>
  ELSE IF Head(sorted).pos_index <= x.pos_index
       THEN <<Head(sorted)>> \o InsertByPos(Tail(sorted), x)
       ELSE <<x>> \o sorted

\* the targets left in the order the loop placed them: what the maskers would
\* return without the sort (C7 is tested against it)
PlacementOrder(lms) == lms

RECURSIVE SortedByPos(_)
\* sorted(masked_lms, key = lambda x: x.pos_index)
SortedByPos(lms) ==
  IF lms = <<>> THEN <<>>
  ELSE InsertByPos(SortedByPos(SubSeq(lms, 1, Len(lms) - 1)), lms[Len(lms)])

\* input_mask: ones, zero from the first pad token of input_ids on
InputMask(ids, n) ==
  [k \in 1..n |-> IF PyIn(padToken, ids) /\ k - 1 >= PyIndexOf(ids, padToken) THEN 0 ELSE 1]

\* "Check that the pad index is likely correct": the token before the first
\* pad (the last token, when the first pad is at index 0) is not a pad
PadCheck(ids) ==
  IF ~PyIn(padToken, ids) THEN "none"
  ELSE IF PyGet(ids, PyIndexOf(ids, padToken) - 1) = padToken THEN "AssertionError"
       ELSE "none"

\* "If any mask is found beyond that point, will have to be rejected"
KeepInside(lms, n) == SelectSeq(lms, LAMBDA p : p.pos_index < n)

\* number of sentinel entries appended by
\* "while len(masked_lm_positions) < training_opts.max_predictions_per_seq"
SentinelCount(have, max_predictions, opts) == opts.max_predictions_per_seq - have

\* the MaskSequence tuple
MaskSequenceOf(seqv, ids, mask, lms, lengths, max_predictions, opts) ==
  LET fill == SentinelCount(Len(lms), max_predictions, opts)
  IN  [original_input |-> seqv,
       input_ids |-> ids,
       input_mask |-> mask,
       masked_lm_positions |-> [k \in 1..Len(lms) |-> lms[k].pos_index] \o PyRepeat(0, fill),
       masked_lm_ids |-> [k \in 1..Len(lms) |-> lms[k].token_id] \o PyRepeat(padToken, fill),
       masked_lm_weights |-> PyRepeat(1, Len(lms)) \o PyRepeat(0, fill),
       masked_lm_lengths |-> lengths \o PyRepeat(0 - 1, fill)]

\* the buffer returned whole, without the cut to len(seq) (C8 is tested
\* against it)
WholeBuffer(ids, n) == ids

\* input_ids[:len(seq)] of the value returned
CropToSeq(ids, n) == PyUpto(ids, n)

\* _holeSequence after its loop: the targets moved to buffer positions, the
\* buffer un-reversed and re-padded, the bookkeeping arrays built.
HoleEpilogue(im, rev, seqv, ids, lms, offs, max_predictions, opts) ==
  LET n      == Len(seqv)
      moved  == OffsetTargets(lms, offs)
      ids1   == IF im = "tf" /\ rev THEN PyReversed(ids) ELSE ids
      lms1   == IF im = "tf" /\ rev THEN MirrorTargets(moved, Len(ids1)) ELSE moved
      e1     == AssertOnHoles(lms1, ids1)
      ids2   == PadToLength(ids1, n)
      sorted == SortedByPos(lms1)
      e2     == PadCheck(ids2)
      kept   == KeepInside(sorted, n)
  IN  IF e1 # "none" THEN [err |-> e1, res |-> None]
      ELSE IF e2 # "none" THEN [err |-> e2, res |-> None]
      ELSE [err |-> "none",
            res |-> MaskSequenceOf(seqv, CropToSeq(ids2, n), InputMask(ids2, n), kept,
                                   [k \in 1..Len(kept) |-> kept[k].hole_length],
                                   max_predictions, opts)]


(***************************************************************************)
(* _maskSequence.                                                          *)
(***************************************************************************)
RECURSIVE DrawNonMeta(_)
\* "random_token = randint(...); while random_token is a meta token: redraw":
\* the generator state once an ordinary token has been drawn
DrawNonMeta(s) ==
  IF RngRandint(s, vocab_size) \in metaTokens THEN DrawNonMeta(RngNext(s)) ELSE RngNext(s)

\* One candidate of the masking loop: the token written at pos_index (the
\* original one when it is kept) and the generator state afterwards.
MaskOne(tok, s, random_placed_mask) ==
  IF RngBelow08(s) THEN [tok |-> maskToken, rng |-> RngNext(s)]
  ELSE IF ~random_placed_mask THEN [tok |-> tok, rng |-> RngNext(s)]
  ELSE IF RngBelow05(RngNext(s)) THEN [tok |-> tok, rng |-> RngNext(RngNext(s))]
  ELSE LET s3 == DrawNonMeta(RngNext(RngNext(s)))
       \* the token written is a fresh randint, not random_token
       IN  [tok |-> RngRandint(s3, vocab_size), rng |-> RngNext(s3)]

RECURSIVE MaskLoopMaskedOnly(_, _, _, _, _, _, _)
\* a masking loop that records an instance only for the positions it wrote
\* the mask token at (C28 is tested against it)
MaskLoopMaskedOnly(cands, seqv, ids, lms, s, masks_to_predict, random_placed_mask) ==
  IF cands = <<>> \/ Len(lms) >= masks_to_predict
  THEN [ids |-> ids, lms |-> lms, rng |-> s]
  ELSE LET pos == Head(cands)
           one == MaskOne(seqv[pos + 1], s, random_placed_mask)
       IN  MaskLoopMaskedOnly(Tail(cands), seqv, [ids EXCEPT ![pos + 1] = one.tok],
                              IF one.tok = maskToken
                              THEN Append(lms, [pos_index |-> pos, token_id |-> seqv[pos + 1],
                                                hole_length |-> 1])
                              ELSE lms,
                              one.rng, masks_to_predict, random_placed_mask)

RECURSIVE MaskLoop(_, _, _, _, _, _, _)
\* "for pos_index in candidate_indexes" of _maskSequence
MaskLoop(cands, seqv, ids, lms, s, masks_to_predict, random_placed_mask) ==
  IF cands = <<>> \/ Len(lms) >= masks_to_predict
  THEN [ids |-> ids, lms |-> lms, rng |-> s]
  ELSE LET pos == Head(cands)
           one == MaskOne(seqv[pos + 1], s, random_placed_mask)
       IN  MaskLoop(Tail(cands), seqv, [ids EXCEPT ![pos + 1] = one.tok],
                    Append(lms, [pos_index |-> pos, token_id |-> seqv[pos + 1], hole_length |-> 1]),
                    one.rng, masks_to_predict, random_placed_mask)

\* _maskSequence, whole: the MaskSequence returned and the generator state
MaskSequenceCall(seqv, s, max_predictions, random_placed_mask, opts) ==
  LET n      == IF PyIn(padToken, seqv) THEN PyIndexOf(seqv, padToken) ELSE Len(seqv)
      cands  == Shuffle(Arange(0, n), s)
      s1     == IF n >= 2 THEN RngNext(s) ELSE s
      done   == MaskLoop(cands, seqv, seqv, <<>>, s1,
                         HolesToPredict(max_predictions, n, opts.masked_lm_prob),
                         random_placed_mask)
      sorted == SortedByPos(done.lms)
  IN  [rng |-> done.rng,
       res |-> MaskSequenceOf(seqv, done.ids, InputMask(done.ids, Len(seqv)), sorted,
                              PyRepeat(1, Len(sorted)), max_predictions, opts)]

(***************************************************************************)
(* The generator and its masking calls.                                    *)
(***************************************************************************)
\* TrainMaskLMBatchGenerator: rngen = random.Random(training_opts.random_seed)
InitMask ==
  /\ impl \in {"dg", "tf"}
  /\ training_opts \in [random_seed : 0..(RngPeriod - 1),
                        max_predictions_per_seq : {TrainPredictions},
                        masked_lm_prob : Probs]
  /\ rngen = training_opts.random_seed
  /\ call = None
  /\ kernel = None
  /\ pc = "idle"
  /\ raised = "none"
  /\ actual_length = 0
  /\ candidate_indexes = <<>>
  /\ holes_to_predict = 0
  /\ reverse_sequence = FALSE
  /\ input_ids = <<>>
  /\ masked_lms = <<>>
  /\ offset_idxs = <<>>
  /\ visited_indices = {}
  /\ total_predictions = 0
  /\ sample_counter = <<>>
  /\ result = None
  /\ builds = 1
  /\ first_result = None

\* _maskCorpus up to maskSequence(kernel): the dataset configuration fixes
\* max_predictions and the masker, and a fresh distribution is built.
MaskCorpus(c, k) ==
  /\ pc = "idle"
  /\ call = None \/ (call = c /\ kernel = k)
  /\ call' = c
  /\ kernel' = k
  /\ sample_counter' = <<>>
  /\ pc' = "call"
  /\ UNCHANGED <<genVars, raised, localVars, result, builds, first_result>>
  /\ UNCHANGED <<sampleVars, topkVars, auxVars>>

\* _holeSequence from its entry to the head of its loop
HoleSequenceEnter ==
  /\ pc = "call"
  /\ call.target = "hole"
  /\ LET al == ActualLength(impl, call.use_start_end, kernel.seq)
         cands == Shuffle(CandidateRange(impl, call.use_start_end, al.val), rngen)
         s1 == IF Len(cands) >= 2 THEN RngNext(rngen) ELSE rngen
         rev == impl = "tf" /\ RngAbove05(s1)
         n == Len(kernel.seq)
     IN  IF kernel.ndim # 1
         THEN /\ raised' = "AssertionError"
              /\ pc' = "raised"
              /\ UNCHANGED <<rngen, localVars>>
         ELSE IF al.err # "none"
         THEN /\ raised' = al.err
              /\ pc' = "raised"
              /\ UNCHANGED <<rngen, localVars>>
         ELSE /\ actual_length' = IF rev THEN n - (IF call.use_start_end THEN 1 ELSE 0) ELSE al.val
              /\ candidate_indexes' = IF rev THEN [k \in 1..Len(cands) |-> (n - 1) - cands[k]] ELSE cands
              /\ holes_to_predict' = HolesToPredict(call.max_predictions, al.val, training_opts.masked_lm_prob)
              /\ reverse_sequence' = rev
              /\ rngen' = IF impl = "tf" THEN RngNext(s1) ELSE s1
              /\ input_ids' = IF rev THEN PyReversed(kernel.seq) ELSE kernel.seq
              /\ masked_lms' = <<>>
              /\ offset_idxs' = [k \in 1..n |-> 0]
              /\ visited_indices' = {}
              /\ total_predictions' = 0
              /\ pc' = "loop"
              /\ UNCHANGED raised
  /\ UNCHANGED <<impl, training_opts, callVars, sample_counter, result, builds, first_result>>
  /\ UNCHANGED <<sampleVars, topkVars, auxVars>>

\* One iteration of the loop that places a hole: the candidates skipped on
\* the way, the length drawn from the distribution (numpy's global generator,
\* which no option seeds), the splice and the bookkeeping.
HolePlace(drawn) ==
  /\ pc = "loop"
  /\ LET head == LoopHead(candidate_indexes, total_predictions, holes_to_predict,
                          visited_indices, offset_idxs, Len(kernel.seq))
     IN  /\ head # <<>>
         /\ LET pos  == Head(head)
                idx  == pos + offset_idxs[pos + 1]
                scan == ScanHole(input_ids, idx, ClampHole(impl, drawn, input_ids, actual_length, idx))
                hl   == scan.len
                tgt  == IF hl > 0 THEN PyGet(input_ids, idx) ELSE endholeToken
                ids  == Splice(input_ids, idx, hl)
                lms  == Append(masked_lms, [pos_index |-> pos, token_id |-> tgt, hole_length |-> hl])
                offs == ShiftOffsets(offset_idxs, pos, hl)
                chk  == TargetsOnHoles(lms, offs, ids)
            IN  \* the operands of the (always true) assertion on a tuple
                \* are evaluated: input_ids[input_id_idx] can be out of range
                IF ~PyInRange(input_ids, idx)
                THEN /\ raised' = "IndexError"
                     /\ pc' = "raised"
                     /\ UNCHANGED <<localVars, sample_counter>>
                ELSE IF scan.err # "none"
                THEN /\ raised' = scan.err
                     /\ pc' = "raised"
                     /\ UNCHANGED <<localVars, sample_counter>>
                ELSE /\ sample_counter' = Register(sample_counter, hl)
                     /\ input_ids' = ids
                     /\ masked_lms' = lms
                     /\ offset_idxs' = offs
                     /\ total_predictions' = total_predictions + Max(1, hl)
                     /\ visited_indices' = visited_indices \cup (pos..(pos + hl - 1))
                     /\ candidate_indexes' = Tail(head)
                     /\ raised' = chk
                     /\ pc' = IF chk = "none" THEN "loop" ELSE "raised"
                     /\ UNCHANGED <<actual_length, holes_to_predict, reverse_sequence>>
  /\ UNCHANGED <<genVars, callVars, result, builds, first_result>>
  /\ UNCHANGED <<sampleVars, topkVars, auxVars>>

\* The loop is over: the rest of _holeSequence, to its return or its assertion.
HoleReturn ==
  /\ pc = "loop"
  /\ LoopHead(candidate_indexes, total_predictions, holes_to_predict,
              visited_indices, offset_idxs, Len(kernel.seq)) = <<>>
  /\ LET out == HoleEpilogue(impl, reverse_sequence, kernel.seq, input_ids, masked_lms,
                             offset_idxs, call.max_predictions, training_opts)
     IN  /\ raised' = out.err
         /\ result' = out.res
         /\ pc' = IF out.err = "none" THEN "returned" ELSE "raised"
  /\ UNCHANGED <<genVars, callVars, localVars, sample_counter, builds, first_result>>
  /\ UNCHANGED <<sampleVars, topkVars, auxVars>>

\* _maskSequence, from its entry to its return
MaskSequence ==
  /\ pc = "call"
  /\ call.target = "mask"
  /\ IF kernel.ndim # 1
     THEN /\ raised' = "AssertionError"
          /\ pc' = "raised"
          /\ UNCHANGED <<rngen, result>>
     ELSE LET out == MaskSequenceCall(kernel.seq, rngen, call.max_predictions,
                                      call.random_placed_mask, training_opts)
          IN  /\ rngen' = out.rng
              /\ result' = out.res
              /\ pc' = "returned"
              /\ UNCHANGED raised
  /\ UNCHANGED <<impl, training_opts, callVars, localVars, sample_counter, builds, first_result>>
  /\ UNCHANGED <<sampleVars, topkVars, auxVars>>

\* A second generator built from the same training options (the same
\* random_seed) to mask the same kernel under the same configuration again.
\* numpy's global generator is not part of the options and is not reset.
Rebuild ==
  /\ pc = "returned"
  /\ builds = 1
  /\ builds' = 2
  /\ first_result' = result
  /\ result' = None
  /\ rngen' = training_opts.random_seed
  /\ pc' = "idle"
  /\ UNCHANGED <<impl, training_opts, callVars, raised, localVars, sample_counter>>
  /\ UNCHANGED <<sampleVars, topkVars, auxVars>>

\* the kernels of one corpus followed
MaxCorpus == 2

\* "for idx, kernel in enumerate(corpus): masked_corpus.append(maskSequence(
\* kernel))": the next kernel of the corpus goes to the same masker, which
\* holds the same self.rngen and the same distribution
NextKernel(k) ==
  /\ pc = "returned"
  /\ corpus_idx < MaxCorpus - 1
  /\ corpus_idx' = corpus_idx + 1
  /\ kernel' = k
  /\ pc' = "call"
  /\ UNCHANGED <<genVars, call, raised, localVars, sample_counter, result, builds, first_result>>
  /\ UNCHANGED <<sampleVars, topkVars, featVars, entVars, distVars, serverVars, iterVars>>

(***************************************************************************)
(* Inference: InitSampleBatch, sample_gen and updateSampleBatch.           *)
(***************************************************************************)
\* sampler.sequence_length
SampleSeqLen == 3
\* updateSampleBatch calls followed in one sampling run
MaxSteps == 3

\* sampler.batch_size
BatchSizes == {1, 2}

\* sampler.encoded_start_text: texts with one or several targets, one with
\* none, and one longer than sequence_length whose hole is cut off
StartTexts ==
  {<<holeToken>>, <<maskToken>>, <<Word(0)>>, <<Word(0), holeToken>>,
   <<maskToken, holeToken>>, <<holeToken, Word(0), holeToken>>,
   <<holeToken>> \o [i \in 1..SampleSeqLen |-> IF i = SampleSeqLen THEN holeToken ELSE Word(0)]}

\* the tokens the model predicts for a target
Predictions == {endholeToken, Word(0), maskToken, holeToken}

\* np.concatenate([input_sample, [padToken] * (max_position_embeddings - len)])
PadToMaxPosition(input_sample, max_pos) ==
  input_sample \o PyRepeat(padToken, max_pos - Len(input_sample))

\* np.where(np.in1d(sample, [maskToken, holeToken]))[0]
SampleMasks(sample) ==
  LET at == SelectSeq([k \in 1..Len(sample) |-> k],
                      LAMBDA k : sample[k] \in {maskToken, holeToken})
  IN  [j \in 1..Len(at) |-> at[j] - 1]

RECURSIVE PyMax(_)
\* max(xs) of a non-empty list
PyMax(xs) == IF Len(xs) = 1 THEN xs[1] ELSE Max(xs[1], PyMax(Tail(xs)))

RECURSIVE PyMin(_)
\* min(xs) of a non-empty list
PyMin(xs) == IF Len(xs) = 1 THEN xs[1] ELSE Min(xs[1], PyMin(Tail(xs)))

\* the smallest number of targets any sample holds: a generator that stops
\* as soon as one sample is resolved (C4 is tested against it)
MinMaskLen(batch) == PyMin([b \in 1..Len(batch) |-> Len(SampleMasks(batch[b]))])

\* max_mask_len: the largest number of targets any sample of the batch holds
MaxMaskLen(batch) == PyMax([b \in 1..Len(batch) |-> Len(SampleMasks(batch[b]))])

\* the inference input of one sample, as sample_gen builds it
SampleInput(sample, max_mask_len) ==
  LET sample_masks == SampleMasks(sample)
      len_offset == max_mask_len - Len(sample_masks)
  IN  [input_ids |-> sample,
       input_mask |-> InputMask(sample, Len(sample)),
       masked_lm_positions |-> sample_masks \o PyRepeat(0, len_offset),
       masked_lm_ids |-> PyRepeat(maskToken, Len(sample_masks)) \o PyRepeat(padToken, len_offset),
       masked_lm_weights |-> PyRepeat(0, max_mask_len),
       masked_lm_lengths |-> PyRepeat(0 - 1, max_mask_len)]

\* a history that keeps only the last prediction (C5 is tested against it)
HistoryOverwrite(history, mt) == <<mt>>

\* sampleIndices[batch_idx][k].append(mt). A run of the model keeps the last
\* MaxSteps entries of a history: updateSampleBatch reads only whether a
\* history is empty and what its last entry is, and within MaxSteps calls a
\* history is kept whole.
HistoryAppend(history, mt) ==
  IF Len(history) < MaxSteps THEN Append(history, mt) ELSE Append(Tail(history), mt)

RECURSIVE SkipClosed(_, _, _)
\* "while sampleIndices[batch_idx][mask_id_index + closed_hole_index][-1]
\*  == endholeToken: closed_hole_index += 1"
SkipClosed(indices, m, c) ==
  IF m + c >= Len(indices) THEN [err |-> "IndexError", c |-> c]
  ELSE IF indices[m + c + 1] = <<>> THEN [err |-> "IndexError", c |-> c]
  ELSE IF PyGet(indices[m + c + 1], 0 - 1) = endholeToken THEN SkipClosed(indices, m, c + 1)
  ELSE [err |-> "none", c |-> c]

\* The history bookkeeping of one target: the closed histories skipped, the
\* prediction appended.
RecordPrediction(indices, m, c, mt) ==
  IF m >= Len(indices) THEN [err |-> "IndexError", c |-> c, indices |-> indices]
  ELSE LET skip == IF Len(indices[m + 1]) > 0 THEN SkipClosed(indices, m, c)
                   ELSE [err |-> "none", c |-> c]
       IN  IF skip.err # "none" \/ m + skip.c >= Len(indices)
           THEN [err |-> "IndexError", c |-> skip.c, indices |-> indices]
           ELSE [err |-> "none", c |-> skip.c,
                 indices |-> [indices EXCEPT ![m + skip.c + 1] = HistoryAppend(@, mt)]]

\* every target replaced by its prediction alone, no hole kept open (C24 is
\* tested against it)
ReplacementClosing(token, mt) == <<mt>>

\* what a mask or hole token becomes in the new buffer: "batch.append(mt)"
\* for a mask; for a hole "batch.append(mt); batch.append(holeToken)" unless
\* mt is the end-hole token, for which nothing is appended
Replacement(token, mt) ==
  IF token = maskToken THEN <<mt>>
  ELSE IF mt # endholeToken THEN <<mt, holeToken>>
  ELSE <<>>

RECURSIVE UpdateSample(_, _, _, _, _, _, _)
\* "for idx, token in enumerate(input_ids[batch_idx])": the new buffer of one
\* sample and its histories, or the exception raised on the way (the
\* histories appended before it stay appended).
UpdateSample(im, tokens, lm_ids, batch, m, c, indices) ==
  IF tokens = <<>> THEN [err |-> "none", batch |-> batch, indices |-> indices]
  ELSE LET token == Head(tokens)
       IN  IF token \notin {maskToken, holeToken}
           THEN UpdateSample(im, Tail(tokens), lm_ids, Append(batch, token), m, c, indices)
           ELSE IF ~PyInRange(lm_ids, m)
           THEN [err |-> "IndexError", batch |-> batch, indices |-> indices]
           ELSE LET mt == PyGet(lm_ids, m)
                    rec == RecordPrediction(indices, m, c, mt)
                    put == Replacement(token, mt)
                IN  \* tf_bert: "if mt == maskToken or mt == holeToken: continue"
                    IF im = "tf" /\ mt \in {maskToken, holeToken}
                    THEN UpdateSample(im, Tail(tokens), lm_ids, batch, m, c, indices)
                    ELSE IF rec.err # "none"
                    THEN [err |-> rec.err, batch |-> batch, indices |-> rec.indices]
                    ELSE UpdateSample(im, Tail(tokens), lm_ids, batch \o put, m + 1,
                                      rec.c, rec.indices)

\* batch = _padToMaxPosition(batch)[:sampler.sequence_length]
CropSample(batch, max_pos, sequence_length) ==
  PyUpto(PadToMaxPosition(batch, max_pos), sequence_length)

\* "if self.sampler.sequence_length > len(batch): l.getLogger().warn(...)",
\* batch being the padded buffer before "batch[:sequence_length]"
CropWarning(batch, sequence_length) == sequence_length > Len(batch)

RECURSIVE UpdateBatchUntilDone(_, _, _, _, _, _, _)
\* an update that stops at the first sample without a target and leaves the
\* samples after it as they were (C26 is tested against it)
UpdateBatchUntilDone(im, b, in_ids, masked_lm_ids, indices, max_pos, sequence_length) ==
  IF b > Len(in_ids)
  THEN [err |-> "none", batch |-> <<>>, indices |-> indices, warned |-> <<>>]
  ELSE IF SampleMasks(in_ids[b]) = <<>>
  THEN [err |-> "none", batch |-> SubSeq(in_ids, b, Len(in_ids)), indices |-> indices,
        warned |-> <<>>]
  ELSE LET one == UpdateSample(im, in_ids[b], masked_lm_ids[b], <<>>, 0, 0, indices[b])
           upd == [indices EXCEPT ![b] = one.indices]
           rest == UpdateBatchUntilDone(im, b + 1, in_ids, masked_lm_ids, upd, max_pos,
                                        sequence_length)
       IN  IF one.err # "none"
           THEN [err |-> one.err, batch |-> <<>>, indices |-> upd, warned |-> <<>>]
           ELSE [err |-> rest.err,
                 batch |-> <<CropSample(one.batch, max_pos, sequence_length)>> \o rest.batch,
                 indices |-> rest.indices,
                 warned |-> <<CropWarning(PadToMaxPosition(one.batch, max_pos),
                                          sequence_length)>> \o rest.warned]

RECURSIVE UpdateBatch(_, _, _, _, _, _, _)
\* "for batch_idx, _ in enumerate(input_ids)", from sample b (1-based) on
UpdateBatch(im, b, in_ids, masked_lm_ids, indices, max_pos, sequence_length) ==
  IF b > Len(in_ids)
  THEN [err |-> "none", batch |-> <<>>, indices |-> indices, warned |-> <<>>]
  ELSE LET one == UpdateSample(im, in_ids[b], masked_lm_ids[b], <<>>, 0, 0, indices[b])
           upd == [indices EXCEPT ![b] = one.indices]
           rest == UpdateBatch(im, b + 1, in_ids, masked_lm_ids, upd, max_pos, sequence_length)
       IN  IF one.err # "none"
           THEN [err |-> one.err, batch |-> <<>>, indices |-> upd, warned |-> <<>>]
           ELSE [err |-> rest.err,
                 batch |-> <<CropSample(one.batch, max_pos, sequence_length)>> \o rest.batch,
                 indices |-> rest.indices,
                 warned |-> <<CropWarning(PadToMaxPosition(one.batch, max_pos),
                                          sequence_length)>> \o rest.warned]

RECURSIVE ModelOutputs(_)
\* What the model can predict for a batch: for every sample one token per
\* target it holds (the predictions past a sample's own targets are not read).
ModelOutputs(batch) ==
  IF batch = <<>> THEN {<<>>}
  ELSE {<<p>> \o rest : p \in [1..Len(SampleMasks(Head(batch))) -> Predictions],
                        rest \in ModelOutputs(Tail(batch))}

\* The samplers: every start text alone, and the texts of at most one target
\* in batches of several samples.
Samplers ==
  {s \in [encoded_start_text : StartTexts, sequence_length : {SampleSeqLen},
          batch_size : BatchSizes] :
     s.batch_size = 1 \/ Len(SampleMasks(s.encoded_start_text)) <= 1}

\* the generator before inference: sampleBatch and sampleIndices are None,
\* here the empty list
InitSample ==
  /\ sampler \in Samplers
  /\ max_position_embeddings \in {SampleSeqLen - 1, SampleSeqLen + 1}
  /\ sampleBatch = <<>>
  /\ sampleIndices = <<>>
  /\ sample_pc = "new"
  /\ sample_raised = "none"
  /\ warnings = <<>>
  /\ yielded = None
  /\ steps = 0

\* InitSampleBatch
InitSampleBatch ==
  /\ sample_pc = "new"
  /\ LET input_sample == sampler.encoded_start_text
         num_targets == PyCount(input_sample, maskToken) + PyCount(input_sample, holeToken)
         padded_sample == CropSample(input_sample, max_position_embeddings, sampler.sequence_length)
     IN  IF sampler.sequence_length > max_position_embeddings \/ Len(SampleMasks(input_sample)) = 0
         THEN /\ sample_raised' = "AssertionError"
              /\ sample_pc' = "raised"
              /\ UNCHANGED <<sampleBatch, sampleIndices>>
         ELSE /\ sampleBatch' = [b \in 1..sampler.batch_size |-> padded_sample]
              /\ sampleIndices' = [b \in 1..sampler.batch_size |-> [i \in 1..num_targets |-> <<>>]]
              /\ sample_pc' = "gen"
              /\ UNCHANGED sample_raised
  /\ UNCHANGED <<sampler, max_position_embeddings, yielded, steps, warnings>>
  /\ UNCHANGED <<maskVars, topkVars, auxVars>>

\* sample_gen, one turn of its "while True": the generator returns, or
\* yields the inference input of the next step
SampleGen ==
  /\ sample_pc = "gen"
  /\ LET max_mask_len == MaxMaskLen(sampleBatch)
     IN  IF max_mask_len = 0
         THEN /\ sample_pc' = "done"
              /\ UNCHANGED yielded
         ELSE /\ yielded' = [original_input |-> IF yielded = None THEN sampleBatch
                                                ELSE yielded.original_input,
                             inputs |-> [b \in 1..Len(sampleBatch) |->
                                           SampleInput(sampleBatch[b], max_mask_len)]]
              /\ sample_pc' = "yielded"
  /\ UNCHANGED <<sampler, max_position_embeddings, sampleBatch, sampleIndices,
                 sample_raised, steps, warnings>>
  /\ UNCHANGED <<maskVars, topkVars, auxVars>>

\* updateSampleBatch(input_ids, masked_lm_ids), called with the input_ids
\* yielded for the step and the model's predictions
UpdateSampleBatch(masked_lm_ids) ==
  /\ sample_pc = "yielded"
  /\ LET in_ids == [b \in 1..Len(yielded.inputs) |-> yielded.inputs[b].input_ids]
         out == UpdateBatch(impl, 1, in_ids, masked_lm_ids, sampleIndices,
                            max_position_embeddings, sampler.sequence_length)
     IN  /\ sampleIndices' = out.indices
         /\ warnings' = out.warned
         /\ IF out.err = "none"
            THEN /\ sampleBatch' = out.batch
                 /\ sample_pc' = "gen"
                 /\ UNCHANGED sample_raised
            ELSE /\ sample_raised' = out.err
                 /\ sample_pc' = "raised"
                 /\ UNCHANGED sampleBatch
  /\ steps' = Min(steps + 1, MaxSteps)
  /\ UNCHANGED <<sampler, max_position_embeddings, yielded>>
  /\ UNCHANGED <<maskVars, topkVars, auxVars>>

(***************************************************************************)
(* EuclideanSampler.topK_candidates.                                       *)
(***************************************************************************)
\* candidates handed to one call
MaxCandidates == 3
\* largest score a candidate carries
MaxScore == 2

\* ActiveSample lists: candidate i of a list has id i and the score given
CandidateLists ==
  UNION {[1..n -> [id : {0}, score : 0..MaxScore]] : n \in 0..MaxCandidates}

RECURSIVE InsertByScore(_, _)
\* x placed after every entry whose score is not larger (a stable sort)
InsertByScore(sorted, x) ==
  IF sorted = <<>> THEN <<x>>
  ELSE IF Head(sorted).score <= x.score
       THEN <<Head(sorted)>> \o InsertByScore(Tail(sorted), x)
       ELSE <<x>> \o sorted

\* the candidates left in the order they were handed in: a selection made
\* without the sort (C11 is tested against it)
ArrivalOrder(cs) == cs

RECURSIVE SortedByScore(_)
\* sorted(candidates, key = lambda x: x.score)
SortedByScore(cs) ==
  IF cs = <<>> THEN <<>>
  ELSE InsertByScore(SortedByScore(SubSeq(cs, 1, Len(cs) - 1)), cs[Len(cs)])

\* sorted(candidates, key = lambda x: x.score)[:K]
topK_candidates(cs, k) == PyUpto(SortedByScore(cs), k)

\* a call of topK_candidates about to be made
InitTopK ==
  /\ \E cs \in CandidateLists : candidates = [i \in 1..Len(cs) |-> [cs[i] EXCEPT !.id = i]]
  /\ K \in (0 - 1)..(MaxCandidates + 1)
  /\ topk_pc = "call"
  /\ selected = <<>>

\* topK_candidates(candidates, K)
TopKCandidates ==
  /\ topk_pc = "call"
  /\ selected' = topK_candidates(candidates, K)
  /\ topk_pc' = "returned"
  /\ UNCHANGED <<candidates, K>>
  /\ UNCHANGED <<maskVars, sampleVars, auxVars>>

(***************************************************************************)
(* EuclideanSampler.calculate_distance.                                    *)
(***************************************************************************)
\* largest value a feature takes
MaxFeature == 2

\* the names of the features of the feature space
FeatureKeys == {"comp", "mem"}

\* feature vectors: a value for some of the features
FeatureMaps == UNION {[ks -> 0..MaxFeature] : ks \in SUBSET FeatureKeys}

\* self.target_benchmark: a benchmark, or None once the benchmarks are used up
Targets == {[feature_vector |-> f] : f \in FeatureMaps} \cup {None}

\* the square of the plain difference: the term of the Euclidean distance
\* (C12 is tested against it)
SquareOfDiff(t, i) == (t - i) * (t - i)

\* the sum of the squares: a term that is not zero for equal values (C13 is
\* tested against it)
SumOfSquares(t, i) == t * t + i * i

\* abs((t**2) - (i**2))
AbsSquareDiff(t, i) == IF t * t - i * i < 0 THEN i * i - t * t ELSE t * t - i * i

RECURSIVE DistanceSum(_, _, _)
\* "for key in self.target_benchmark.feature_vector.keys(): d += ...", over
\* the keys still to visit
DistanceSum(keys, t, i) ==
  IF keys = {} THEN 0
  ELSE LET key == CHOOSE k \in keys : TRUE
       IN  AbsSquareDiff(t[key], i[key]) + DistanceSum(keys \ {key}, t, i)

\* math.sqrt(d): the real square root of d, written by its radicand
Sqrt(d) == [sqrt_of |-> d]

\* calculate_distance(infeat), whole: the value returned or the exception
calculate_distance(target, inf) ==
  IF target = None THEN [err |-> "AttributeError", val |-> None]
  ELSE IF \E key \in DOMAIN target.feature_vector : key \notin DOMAIN inf
       THEN [err |-> "KeyError", val |-> None]
       ELSE [err |-> "none",
             val |-> Sqrt(DistanceSum(DOMAIN target.feature_vector, target.feature_vector, inf))]

\* a sampler with its target benchmark, about to score a candidate
InitDistance ==
  /\ target_benchmark \in Targets
  /\ infeat \in FeatureMaps
  /\ distance_pc = "call"
  /\ distance = None
  /\ distance_raised = "none"

\* calculate_distance(infeat)
CalculateDistance ==
  /\ distance_pc = "call"
  /\ LET out == calculate_distance(target_benchmark, infeat)
     IN  /\ distance' = out.val
         /\ distance_raised' = out.err
         /\ distance_pc' = IF out.err = "none" THEN "returned" ELSE "raised"
  /\ UNCHANGED <<target_benchmark, infeat>>
  /\ UNCHANGED <<maskVars, sampleVars, topkVars, entVars, distVars, corpusVars, serverVars, iterVars>>

(***************************************************************************)
(* QueryByCommittee.entropy.                                               *)
(***************************************************************************)
\* the committee's predictions are classes 0..MaxLabel
MaxLabel == 2

\* the number of committee members, each giving one label
MaxLabels == 4

\* the lists of labels entropy is called with
LabelLists == UNION {[1..n -> 0..MaxLabel] : n \in 0..MaxLabels}

\* a real number ln(num / den) / over, num, den and over positive integers
LogRatio(num, den, over) == [num |-> num, den |-> den, over |-> over]

\* "return 0"
Zero == LogRatio(1, 1, 1)

\* np.unique(labels, return_counts = True): the labels present, each with the
\* number of times it occurs
Unique(labs) ==
  [value \in {labs[i] : i \in 1..Len(labs)} |->
     Cardinality({i \in 1..Len(labs) : labs[i] = value})]

\* np.count_nonzero(probs), probs = counts / len(labels)
CountNonzero(counts) == Cardinality({value \in DOMAIN counts : counts[value] > 0})

\* "entropy += p * log(p)": the term with its sign turned (C14 is tested
\* against it)
PlusLogTerm(count, n) == <<count ^ count, n ^ count>>

\* "entropy -= p * math.log(p, math.e)" with p = count / n: the term
\* -p ln p = ln((n / count) ^ count) / n, as the pair n^count, count^count
LogTerm(count, n) == <<n ^ count, count ^ count>>

RECURSIVE EntropySum(_, _, _)
\* "for p in probs: entropy -= ...", over the labels still to visit,
\* starting from 0.0: the numerator and denominator under the logarithm
EntropySum(values, counts, n) ==
  IF values = {} THEN <<1, 1>>
  ELSE LET value == CHOOSE v \in values : TRUE
           rest == EntropySum(values \ {value}, counts, n)
           term == LogTerm(counts[value], n)
       IN  <<term[1] * rest[1], term[2] * rest[2]>>

\* entropy(labels), base = None
entropy(labs) ==
  IF Len(labs) <= 1 THEN Zero
  ELSE LET counts == Unique(labs)
       IN  IF CountNonzero(counts) <= 1 THEN Zero
           ELSE LET sum == EntropySum(DOMAIN counts, counts, Len(labs))
                IN  LogRatio(sum[1], sum[2], Len(labs))

\* the predictions of the committee for one sample
InitEntropy ==
  /\ labels \in LabelLists
  /\ entropy_pc = "call"
  /\ ent = None

\* ent = self.entropy(labels)
Entropy ==
  /\ entropy_pc = "call"
  /\ ent' = entropy(labels)
  /\ entropy_pc' = "returned"
  /\ UNCHANGED labels
  /\ UNCHANGED <<maskVars, sampleVars, topkVars, featVars, distVars, corpusVars, serverVars, iterVars>>

(***************************************************************************)
(* UniformDistribution and NormalDistribution.                             *)
(***************************************************************************)
\* how far outside [0, sample_length] a rounded normal draw is taken
NormalSpread == 2

\* the redraws followed within one call of NormalDistribution.sample
MaxRedraws == 2

\* the samples registered with one distribution
MaxRegistered == 2

\* Distribution.FromHoleConfig(config.hole, ...)
Distributions ==
  [kind : {"uniform", "normal"}, sample_length : 0..MaxHoleLen]

\* a randint that takes its upper end as well (C15 is tested against it)
RandintClosed(low, high) == low..high

\* np.random.randint(low, high): an integer of [low, high)
Randint(low, high) == low..(high - 1)

\* int(round(np.random.normal(loc = self.mean, scale = self.variance))): any
\* integer, here those within NormalSpread of the range
NormalRounded(d) == (0 - NormalSpread)..(d.sample_length + NormalSpread)

\* a distribution as _maskCorpus builds it, nothing sampled yet
InitDistribution ==
  /\ distribution \in Distributions
  /\ dist_pc = "call"
  /\ sampled = None
  /\ redraws = 0
  /\ dist_counter = <<>>

\* UniformDistribution.sample()
UniformSample ==
  /\ dist_pc = "call"
  /\ distribution.kind = "uniform"
  /\ sampled' \in Randint(0, distribution.sample_length + 1)
  /\ dist_pc' = "returned"
  /\ redraws' = 0
  /\ UNCHANGED <<distribution, dist_counter>>
  /\ UNCHANGED <<maskVars, sampleVars, topkVars, featVars, entVars, corpusVars, serverVars, iterVars>>

\* NormalDistribution.sample(): the first draw
NormalSample ==
  /\ dist_pc = "call"
  /\ distribution.kind = "normal"
  /\ sampled' \in NormalRounded(distribution)
  /\ dist_pc' = "while"
  /\ redraws' = 0
  /\ UNCHANGED <<distribution, dist_counter>>
  /\ UNCHANGED <<maskVars, sampleVars, topkVars, featVars, entVars, corpusVars, serverVars, iterVars>>

\* NormalDistribution.sample(): the body of the while loop
NormalRedraw ==
  /\ dist_pc = "while"
  /\ sampled < 0 \/ sampled > distribution.sample_length
  /\ redraws < MaxRedraws
  /\ sampled' \in NormalRounded(distribution)
  /\ redraws' = redraws + 1
  /\ UNCHANGED <<distribution, dist_pc, dist_counter>>
  /\ UNCHANGED <<maskVars, sampleVars, topkVars, featVars, entVars, corpusVars, serverVars, iterVars>>

\* NormalDistribution.sample(): the loop condition fails, "return sample"
NormalReturn ==
  /\ dist_pc = "while"
  /\ ~(sampled < 0 \/ sampled > distribution.sample_length)
  /\ dist_pc' = "returned"
  /\ UNCHANGED <<distribution, sampled, redraws, dist_counter>>
  /\ UNCHANGED <<maskVars, sampleVars, topkVars, featVars, entVars, corpusVars, serverVars, iterVars>>

\* distribution.register(hole_length): the caller registers the length it
\* placed, at most the length sampled, and samples again later
RegisterSample(actual_sample) ==
  /\ dist_pc = "returned"
  /\ actual_sample <= sampled
  /\ actual_sample \in DOMAIN dist_counter => dist_counter[actual_sample] < MaxRegistered
  /\ dist_counter' = Register(dist_counter, actual_sample)
  /\ dist_pc' = "call"
  /\ UNCHANGED <<distribution, sampled, redraws>>
  /\ UNCHANGED <<maskVars, sampleVars, topkVars, featVars, entVars, corpusVars, serverVars, iterVars>>

(***************************************************************************)
(* http_server: write_message, read_message, get_backlog.                  *)
(***************************************************************************)
\* the entries written to the server in a run
MaxEntries == 2

\* waitress.serve(app, ...): the threads that serve requests at the same
\* time, two of them followed
ServerThreads == 2

\* the Server-Name header of a request: a host name
Sources == {"hostA", "hostB"}

\* flask.request.headers.get("Server-Name") of a request without the header
NoServerName == "None"

\* only the first result of the queue saved (C17 is tested against it)
FirstTagged(source, ret) == [i \in 1..Min(1, Len(ret)) |-> <<source, ret[i]>>]

\* [[source, r] for r in ret]
Tagged(source, ret) == [i \in 1..Len(ret) |-> <<source, ret[i]>>]

\* handler.set_params(...) in http_serve: empty queues, an empty backlog
InitServer ==
  /\ read_queue = <<>>
  /\ write_queues = [s \in {} |-> <<>>]
  /\ reject_queues = [s \in {} |-> <<>>]
  /\ backlog = <<>>
  /\ requests = [t \in 1..ServerThreads |-> [at |-> "idle", source |-> NoServerName, ret |-> <<>>, status |-> 0]]
  /\ responses = {}
  /\ served = <<>>
  /\ written = 0

\* dict[key] = manager.list() when the key is missing
WithQueue(queues, source) ==
  IF source \in DOMAIN queues THEN queues
  ELSE [s \in DOMAIN queues \cup {source} |-> IF s = source THEN <<>> ELSE queues[s]]

\* write_message(), a list of n entries in the request (the entries are
\* numbered as they are written)
WriteMessage(source, n) ==
  /\ written + n <= MaxEntries
  /\ source # NoServerName
  /\ write_queues' = WithQueue(write_queues, source)
  /\ reject_queues' = WithQueue(reject_queues, source)
  /\ read_queue' = read_queue \o [i \in 1..n |-> <<source, written + i>>]
  /\ written' = written + n
  /\ UNCHANGED <<backlog, requests, responses, served>>
  /\ UNCHANGED <<maskVars, sampleVars, topkVars, featVars, entVars, distVars, corpusVars, iterVars>>

\* The process that started the server takes an entry from the read queue
\* and appends its result to the write queue of the entry's source.
Compute ==
  /\ read_queue # <<>>
  /\ LET source == Head(read_queue)[1]
         entry == Head(read_queue)[2]
     IN  write_queues' = [write_queues EXCEPT ![source] = Append(@, entry)]
  /\ read_queue' = Tail(read_queue)
  /\ UNCHANGED <<reject_queues, backlog, requests, responses, served, written>>
  /\ UNCHANGED <<maskVars, sampleVars, topkVars, featVars, entVars, distVars, corpusVars, iterVars>>

\* read_message(): "ret = [r for r in handler.write_queues[source]]", a
\* KeyError (status 500) for a source that has no queue
ReadMessage(t, source) ==
  /\ requests[t].at = "idle"
  /\ requests' = [requests EXCEPT ![t] =
       IF source \in DOMAIN write_queues
       THEN [at |-> "read", source |-> source, ret |-> write_queues[source], status |-> 0]
       ELSE [at |-> "idle", source |-> NoServerName, ret |-> <<>>, status |-> 500]]
  /\ UNCHANGED <<read_queue, write_queues, reject_queues, backlog, responses, served, written>>
  /\ UNCHANGED <<maskVars, sampleVars, topkVars, featVars, entVars, distVars, corpusVars, iterVars>>

\* read_message(): "handler.write_queues[source] = handler.manager.list()"
ReadMessageFlush(t) ==
  /\ requests[t].at = "read"
  /\ write_queues' = [write_queues EXCEPT ![requests[t].source] = <<>>]
  /\ requests' = [requests EXCEPT ![t].at = "flushed"]
  /\ UNCHANGED <<read_queue, reject_queues, backlog, responses, served, written>>
  /\ UNCHANGED <<maskVars, sampleVars, topkVars, featVars, entVars, distVars, corpusVars, iterVars>>

\* read_message(): "handler.backlog += [[source, r] for r in ret]", the list
\* extended in place
ReadMessageSave(t) ==
  /\ requests[t].at = "flushed"
  /\ backlog' = backlog \o Tagged(requests[t].source, requests[t].ret)
  /\ requests' = [requests EXCEPT ![t].at = "saved"]
  /\ UNCHANGED <<read_queue, write_queues, reject_queues, responses, served, written>>
  /\ UNCHANGED <<maskVars, sampleVars, topkVars, featVars, entVars, distVars, corpusVars, iterVars>>

\* read_message(): "return bytes(json.dumps(ret), ...), 200"
ReadMessageReturn(t) ==
  /\ requests[t].at = "saved"
  /\ responses' = responses \cup {<<requests[t].source, requests[t].ret[i]>> : i \in 1..Len(requests[t].ret)}
  /\ requests' = [requests EXCEPT ![t] =
       [at |-> "idle", source |-> NoServerName, ret |-> <<>>, status |-> 200]]
  /\ UNCHANGED <<read_queue, write_queues, reject_queues, backlog, served, written>>
  /\ UNCHANGED <<maskVars, sampleVars, topkVars, featVars, entVars, distVars, corpusVars, iterVars>>

\* get_backlog()
GetBacklog ==
  /\ served' = backlog
  /\ UNCHANGED <<read_queue, write_queues, reject_queues, backlog, requests, responses, written>>
  /\ UNCHANGED <<maskVars, sampleVars, topkVars, featVars, entVars, distVars, corpusVars, iterVars>>

(***************************************************************************)
(* ThreadedIterator: worker() in its thread, __iter__ in the consumer.     *)
(***************************************************************************)
\* the elements the wrapped iterator produces at most
MaxElements == 3

\* the largest max_queue_size (2 is the default)
MaxQueueSize == 2

\* Wrapped iterators: the elements produced, and the exception raised after
\* them ("none" for an iterator that ends normally)
Iterators ==
  [elements : UNION {[1..n -> {"a", "b"}] : n \in 0..MaxElements},
   error : {"none", "ValueError", "KeyError"}]

\* _ValueOrError(value = element) and _ValueOrError(error = e)
ValueOrError(value, error) == [end |-> FALSE, value |-> value, error |-> error]

\* _EndOfIterator()
EndOfIterator == [end |-> TRUE, value |-> "", error |-> "none"]

\* a queue that hands out the item put last (C18 is tested against it)
StackGet(q) == [item |-> q[Len(q)], rest |-> SubSeq(q, 1, Len(q) - 1)]

\* queue.Queue.get(): the item put first
QueueGet(q) == [item |-> Head(q), rest |-> Tail(q)]

\* ThreadedIterator(iterator, max_queue_size, start)
InitIterator ==
  /\ iterator \in Iterators
  /\ max_queue_size \in 1..MaxQueueSize
  /\ started \in BOOLEAN
  /\ queue = <<>>
  /\ produced = 0
  /\ worker_pc = "for"
  /\ consumer_pc = "get"
  /\ received = <<>>
  /\ consumer_raised = "none"

\* Start(), called by the owner of an iterator built with start = False
Start ==
  /\ ~started
  /\ started' = TRUE
  /\ UNCHANGED <<iterator, max_queue_size, queue, produced, worker_pc, consumer_pc, received, consumer_raised>>
  /\ UNCHANGED <<maskVars, sampleVars, topkVars, featVars, entVars, distVars, corpusVars, serverVars>>

\* worker(): "for element in iterator: self._queue.put(_ValueOrError(value =
\* element), block = True)", one element; put waits while the queue is full
WorkerPut ==
  /\ started
  /\ worker_pc = "for"
  /\ produced < Len(iterator.elements)
  /\ Len(queue) < max_queue_size
  /\ queue' = Append(queue, ValueOrError(iterator.elements[produced + 1], "none"))
  /\ produced' = produced + 1
  /\ UNCHANGED <<iterator, max_queue_size, started, worker_pc, consumer_pc, received, consumer_raised>>
  /\ UNCHANGED <<maskVars, sampleVars, topkVars, featVars, entVars, distVars, corpusVars, serverVars>>

\* worker(): the iterator raises, "self._queue.put(_ValueOrError(error = e))"
WorkerError ==
  /\ started
  /\ worker_pc = "for"
  /\ produced = Len(iterator.elements)
  /\ iterator.error # "none"
  /\ Len(queue) < max_queue_size
  /\ queue' = Append(queue, ValueOrError("", iterator.error))
  /\ worker_pc' = "except"
  /\ UNCHANGED <<iterator, max_queue_size, started, produced, consumer_pc, received, consumer_raised>>
  /\ UNCHANGED <<maskVars, sampleVars, topkVars, featVars, entVars, distVars, corpusVars, serverVars>>

\* worker(): the loop is over or the error was put,
\* "self._queue.put(self._EndOfIterator(), block = True)"
WorkerEnd ==
  /\ started
  /\ \/ worker_pc = "for" /\ produced = Len(iterator.elements) /\ iterator.error = "none"
     \/ worker_pc = "except"
  /\ Len(queue) < max_queue_size
  /\ queue' = Append(queue, EndOfIterator)
  /\ worker_pc' = "done"
  /\ UNCHANGED <<iterator, max_queue_size, started, produced, consumer_pc, received, consumer_raised>>
  /\ UNCHANGED <<maskVars, sampleVars, topkVars, featVars, entVars, distVars, corpusVars, serverVars>>

\* __iter__(): "next_element = self._queue.get(block = True)" and what
\* follows it up to the next get: the value yielded, the error raised, or
\* the loop left at the end marker
ConsumerGet ==
  /\ consumer_pc = "get"
  /\ queue # <<>>
  /\ LET next_element == QueueGet(queue).item
     IN  /\ queue' = QueueGet(queue).rest
         /\ IF next_element.end
            THEN /\ consumer_pc' = "join"
                 /\ UNCHANGED <<received, consumer_raised>>
            ELSE IF next_element.error = "none"
            THEN /\ received' = Append(received, next_element.value)
                 /\ UNCHANGED <<consumer_pc, consumer_raised>>
            ELSE /\ consumer_raised' = next_element.error
                 /\ consumer_pc' = "raised"
                 /\ UNCHANGED received
  /\ UNCHANGED <<iterator, max_queue_size, started, produced, worker_pc>>
  /\ UNCHANGED <<maskVars, sampleVars, topkVars, featVars, entVars, distVars, corpusVars, serverVars>>

\* __iter__(): "self._thread.join()"
ConsumerJoin ==
  /\ consumer_pc = "join"
  /\ worker_pc = "done"
  /\ consumer_pc' = "exhausted"
  /\ UNCHANGED <<iterator, max_queue_size, started, queue, produced, worker_pc, received, consumer_raised>>
  /\ UNCHANGED <<maskVars, sampleVars, topkVars, featVars, entVars, distVars, corpusVars, serverVars>>

vars == <<maskVars, sampleVars, topkVars, auxVars>>

(***************************************************************************)
(* Specifications.                                                         *)
(***************************************************************************)
\* the components that a specification leaves at rest
SampleIdle ==
  /\ InitSample
  /\ sampler = [encoded_start_text |-> <<holeToken>>, sequence_length |-> SampleSeqLen,
                batch_size |-> 1]
  /\ max_position_embeddings = SampleSeqLen + 1
TopKIdle == InitTopK /\ candidates = <<>> /\ K = 0
MaskIdle ==
  /\ InitMask
  /\ training_opts = [random_seed |-> 0, max_predictions_per_seq |-> TrainPredictions,
                      masked_lm_prob |-> <<1, 2>>]

FeatIdle == InitDistance /\ target_benchmark = None /\ infeat = [key \in {} |-> 0]
EntIdle == InitEntropy /\ labels = <<>>
CorpusIdle == corpus_idx = 0
ServerIdle == InitServer
IterIdle ==
  /\ InitIterator
  /\ iterator = [elements |-> <<>>, error |-> "none"]
  /\ max_queue_size = 1
  /\ ~started
DistIdle == InitDistribution /\ distribution = [kind |-> "uniform", sample_length |-> 0]
AuxIdle == FeatIdle /\ EntIdle /\ DistIdle /\ CorpusIdle /\ ServerIdle /\ IterIdle

\* Masking a corpus
Init == InitMask /\ SampleIdle /\ TopKIdle /\ AuxIdle

Next ==
  \/ \E c \in Calls(impl), k \in Inputs : MaskCorpus(c, k)
  \/ HoleSequenceEnter
  \/ \E drawn \in 0..MaxHoleLen : HolePlace(drawn)
  \/ HoleReturn
  \/ MaskSequence

Spec == Init /\ [][Next]_vars

\* Repeated runs: the generators seeded alike that the determinism claims compare
RerunSeeds == 2
InitRerun == Init /\ impl = "dg" /\ training_opts.random_seed < RerunSeeds
NextRerun == Next \/ Rebuild
SpecRerun == InitRerun /\ [][NextRerun]_vars

\* One step of the model: its predictions for the input yielded, fed back
ModelStep ==
  /\ sample_pc = "yielded"
  /\ \E masked_lm_ids \in ModelOutputs(sampleBatch) : UpdateSampleBatch(masked_lm_ids)

\* Inference, followed for MaxSteps updates
InitInference == MaskIdle /\ InitSample /\ TopKIdle /\ AuxIdle

NextSample ==
  \/ InitSampleBatch
  \/ SampleGen
  \/ steps < MaxSteps /\ ModelStep

SpecSample == InitInference /\ [][NextSample]_vars

\* Inference for as long as it runs, one sample per batch and at most one
\* target in the start text: the estimator
\* keeps asking the generator for the next input and feeds every prediction
\* back.
InitLoop ==
  /\ InitInference
  /\ impl = "dg"
  /\ sampler.batch_size = 1
  /\ Len(SampleMasks(sampler.encoded_start_text)) <= 1

NextLoop ==
  \/ InitSampleBatch
  \/ SampleGen
  \/ ModelStep

SpecLoop ==
  /\ InitLoop
  /\ [][NextLoop]_vars
  /\ WF_vars(InitSampleBatch)
  /\ WF_vars(SampleGen)
  /\ WF_vars(ModelStep)

\* Candidate selection
InitSelect == MaskIdle /\ SampleIdle /\ InitTopK /\ AuxIdle
NextSelect == TopKCandidates
SpecTopK == InitSelect /\ [][NextSelect]_vars


\* Scoring a candidate against the target benchmark
InitScore == MaskIdle /\ SampleIdle /\ TopKIdle /\ InitDistance /\ EntIdle /\ DistIdle /\ CorpusIdle /\ ServerIdle /\ IterIdle
NextScore == CalculateDistance
SpecDistance == InitScore /\ [][NextScore]_vars


\* The entropy of the committee's predictions
InitCommittee == MaskIdle /\ SampleIdle /\ TopKIdle /\ FeatIdle /\ InitEntropy /\ DistIdle /\ CorpusIdle /\ ServerIdle /\ IterIdle
NextCommittee == Entropy
SpecEntropy == InitCommittee /\ [][NextCommittee]_vars


\* Sampling hole lengths from a distribution
InitSampling == MaskIdle /\ SampleIdle /\ TopKIdle /\ FeatIdle /\ EntIdle /\ InitDistribution /\ CorpusIdle /\ ServerIdle /\ IterIdle
NextSampling ==
  \/ UniformSample
  \/ NormalSample
  \/ NormalRedraw
  \/ NormalReturn
  \/ \E actual_sample \in 0..MaxHoleLen : RegisterSample(actual_sample)
SpecDistribution == InitSampling /\ [][NextSampling]_vars


\* A corpus of MaxCorpus kernels masked by one generator
InitCorpus ==
  /\ Init
  /\ impl = "dg"
  /\ training_opts.random_seed < RerunSeeds
  /\ training_opts.masked_lm_prob = <<1, 2>>
NextCorpus ==
  \/ Next
  \/ \E k \in {i \in Inputs : i.ndim = 1 /\ i.seq[3] = padToken} : NextKernel(k)
SpecCorpus == InitCorpus /\ [][NextCorpus]_vars


\* The server, written to and read by two hosts
InitServing == MaskIdle /\ SampleIdle /\ TopKIdle /\ FeatIdle /\ EntIdle /\ DistIdle /\ CorpusIdle /\ InitServer /\ IterIdle
NextServing ==
  \/ \E source \in Sources, n \in 0..MaxEntries : WriteMessage(source, n)
  \/ Compute
  \/ \E t \in 1..ServerThreads, source \in Sources \cup {NoServerName} : ReadMessage(t, source)
  \/ \E t \in 1..ServerThreads : ReadMessageFlush(t)
  \/ \E t \in 1..ServerThreads : ReadMessageSave(t)
  \/ \E t \in 1..ServerThreads : ReadMessageReturn(t)
  \/ GetBacklog
SpecServer == InitServing /\ [][NextServing]_vars


\* A ThreadedIterator and its consumer
InitIterating ==
  /\ MaskIdle /\ SampleIdle /\ TopKIdle
  /\ FeatIdle /\ EntIdle /\ DistIdle /\ CorpusIdle /\ ServerIdle
  /\ InitIterator
NextIterating ==
  \/ Start
  \/ WorkerPut
  \/ WorkerError
  \/ WorkerEnd
  \/ ConsumerGet
  \/ ConsumerJoin
SpecIterator == InitIterating /\ [][NextIterating]_vars


\* C1: in every MaskSequence that hole masking returns for a kernel holding no
\* hole token, the hole tokens of input_ids[:len(seq)] are as many as the
\* entries of weight 1 with a position below len(seq), and each such entry's
\* position holds a hole token.
C1_HoleCountMatchesTargets ==
  (pc = "returned" /\ call.target = "hole" /\ ~PyIn(holeToken, kernel.seq)) =>
    LET n == Len(kernel.seq)
        real == {k \in 1..Len(result.masked_lm_positions) :
                   result.masked_lm_weights[k] = 1 /\ result.masked_lm_positions[k] < n}
    IN  /\ PyCount(PyUpto(result.input_ids, n), holeToken) = Cardinality(real)
        /\ \A k \in real : /\ PyInRange(result.input_ids, result.masked_lm_positions[k])
                           /\ PyGet(result.input_ids, result.masked_lm_positions[k]) = holeToken


\* C2: two generators built with the same seed return the same MaskSequence
\* for the same kernel and configuration.
C2_SameSeedSameMask ==
  (builds = 2 /\ pc = "returned" /\ call.target = "hole") => result = first_result

\* the four bookkeeping arrays of a MaskSequence
LmArrays(r) ==
  <<r.masked_lm_positions, r.masked_lm_ids, r.masked_lm_weights, r.masked_lm_lengths>>

\* entry k of the arrays is the sentinel (position 0, pad, weight 0, length -1)
IsSentinel(r, k) ==
  /\ r.masked_lm_positions[k] = 0
  /\ r.masked_lm_ids[k] = padToken
  /\ r.masked_lm_weights[k] = 0
  /\ r.masked_lm_lengths[k] = 0 - 1

\* C6: the four arrays each have exactly max_predictions entries, the
\* max_predictions_per_seq of the dataset configuration the call was made
\* for, real entries first and sentinels after them.
C6_ArraysPaddedToMaxPredictions ==
  (pc = "returned" /\ call.target = "hole") =>
    /\ \A i \in 1..4 : Len(LmArrays(result)[i]) = call.max_predictions
    /\ \E m \in 0..Len(result.masked_lm_weights) :
         /\ \A k \in 1..m : result.masked_lm_weights[k] = 1
         /\ \A k \in (m + 1)..Len(result.masked_lm_weights) : IsSentinel(result, k)

\* the positions of the entries of weight 1, in array order
RealPositions(r) ==
  LET idx == SelectSeq([k \in 1..Len(r.masked_lm_positions) |-> k],
                       LAMBDA k : r.masked_lm_weights[k] = 1)
  IN  [j \in 1..Len(idx) |-> r.masked_lm_positions[idx[j]]]

\* C7: in every MaskSequence returned, by either masker, the positions of
\* the non-sentinel entries are strictly ascending.
C7_PositionsStrictlyAscending ==
  pc = "returned" =>
    LET ps == RealPositions(result)
    IN  \A j \in 1..(Len(ps) - 1) : ps[j] < ps[j + 1]

\* C7 witness: a returned instance with three holes, placed in an order that
\* is not the order of their positions.
C7_Witness ==
  /\ pc = "returned" /\ call.target = "hole"
  /\ Len(RealPositions(result)) >= 3
  /\ \E j \in 1..(Len(masked_lms) - 1) : masked_lms[j].pos_index > masked_lms[j + 1].pos_index

\* C8: input_ids and input_mask of every returned instance have length len(seq).
C8_LengthIsSeqLength ==
  (pc = "returned" /\ call.target = "hole") =>
    /\ Len(result.input_ids) = Len(kernel.seq)
    /\ Len(result.input_mask) = Len(kernel.seq)

\* C8 witness: an instance returned after empty holes made the buffer longer
\* than the sequence.
C8_Witness ==
  /\ pc = "returned" /\ call.target = "hole"
  /\ Len(input_ids) > Len(kernel.seq)

\* C8 witness, the other direction: holes made the buffer shorter and it was
\* re-padded.
C8_WitnessShorter ==
  /\ pc = "returned" /\ call.target = "hole"
  /\ Len(input_ids) < Len(kernel.seq)

\* an input the maskers must reject: not one-dimensional, or without any
\* token that is not a pad
Malformed(k) == k.ndim # 1 \/ \A i \in 1..Len(k.seq) : k.seq[i] = padToken

\* C9: neither masker returns an instance for a malformed input.
C9_MalformedRejected ==
  (kernel # None /\ Malformed(kernel)) => pc # "returned"


\* some sample of the batch still holds a mask or hole token
TargetsLeft(batch) == \E b \in 1..Len(batch) : Len(SampleMasks(batch[b])) > 0

\* C3: whatever the model predicts, the inference loop comes to an end: it
\* reaches DONE (or the exception that aborts it).
C3_LoopEnds == <>(sample_pc \in {"done", "raised"})

\* C4: sample_gen yields a step exactly when some sample of the batch still
\* holds a mask or hole token, and returns exactly when none does.
C4_YieldsWhileTargetsLeft ==
  /\ sample_pc = "yielded" => TargetsLeft(sampleBatch)
  /\ sample_pc = "done" => ~TargetsLeft(sampleBatch)
  /\ sample_pc = "yielded" =>
       \A b \in 1..Len(sampleBatch) : yielded.inputs[b].input_ids = sampleBatch[b]

\* C4 witness: a step yielded, after an update, for a batch of which one
\* sample is resolved and another is not.
C4_Witness ==
  /\ sample_pc = "yielded" /\ steps >= 1
  /\ \E b \in 1..Len(sampleBatch) : Len(SampleMasks(sampleBatch[b])) = 0
  /\ \E b \in 1..Len(sampleBatch) : Len(SampleMasks(sampleBatch[b])) > 0

\* xs is a prefix of ys
IsPrefix(xs, ys) == Len(xs) <= Len(ys) /\ SubSeq(ys, 1, Len(xs)) = xs

\* C5: every updateSampleBatch call leaves every history of every sample a
\* prefix of what it is after the call, and removes no history.
C5_HistoriesAppendOnly ==
  [][sample_pc = "yielded" =>
       /\ Len(sampleIndices') = Len(sampleIndices)
       /\ \A b \in 1..Len(sampleIndices) :
            /\ Len(sampleIndices'[b]) = Len(sampleIndices[b])
            /\ \A i \in 1..Len(sampleIndices[b]) :
                 IsPrefix(sampleIndices[b][i], sampleIndices'[b][i])]_vars

\* C5 witness: a history that a second call appended to.
C5_Witness ==
  /\ steps = MaxSteps
  /\ \E b \in 1..Len(sampleIndices) : \E i \in 1..Len(sampleIndices[b]) :
       Len(sampleIndices[b][i]) >= 2

\* C10: topK_candidates(candidates, -1) returns every candidate, in
\* ascending order of score.
C10_MinusOneSelectsAll ==
  (topk_pc = "returned" /\ K = 0 - 1) =>
    /\ Len(selected) = Len(candidates)
    /\ \A i \in 1..Len(candidates) : \E j \in 1..Len(selected) : selected[j] = candidates[i]
    /\ \A j \in 1..(Len(selected) - 1) : selected[j].score <= selected[j + 1].score

\* C11: for K >= 0, topK_candidates returns min(K, n) candidates, in ascending
\* order of score, each of them a candidate taken once, and no candidate left
\* out scores lower than one that was selected; so K = 0 and an empty list
\* give the empty list.
C11_FirstKByScore ==
  (topk_pc = "returned" /\ K >= 0) =>
    /\ Len(selected) = Min(K, Len(candidates))
    /\ \A j \in 1..Len(selected) : \E i \in 1..Len(candidates) : selected[j] = candidates[i]
    /\ \A j \in 1..Len(selected) : \A l \in 1..Len(selected) :
         selected[j].id = selected[l].id => j = l
    /\ \A j \in 1..(Len(selected) - 1) : selected[j].score <= selected[j + 1].score
    /\ \A i \in 1..Len(candidates) :
         (\A j \in 1..Len(selected) : selected[j] # candidates[i]) =>
           \A j \in 1..Len(selected) : selected[j].score <= candidates[i].score

\* C11 witness: a selection of some but not all of the candidates, from a
\* list that was not handed in sorted.
C11_Witness ==
  /\ topk_pc = "returned"
  /\ K >= 1 /\ K < Len(candidates)
  /\ \E i \in 1..(Len(candidates) - 1) : candidates[i].score > candidates[i + 1].score

RECURSIVE SumOf(_)
\* the sum of the values of a function over its finite domain
SumOf(f) ==
  IF DOMAIN f = {} THEN 0
  ELSE LET x == CHOOSE y \in DOMAIN f : TRUE
       IN  f[x] + SumOf([y \in DOMAIN f \ {x} |-> f[y]])

\* |target[key]^2 - infeat[key]^2| for every key of the target
TargetTerms(t, i) ==
  [key \in DOMAIN t |->
     IF t[key] * t[key] >= i[key] * i[key] THEN t[key] * t[key] - i[key] * i[key]
     ELSE i[key] * i[key] - t[key] * t[key]]

C13_DistanceToItselfIsZero ==
  (distance_pc # "call" /\ target_benchmark # None
     /\ infeat = target_benchmark.feature_vector) =>
    distance_pc = "returned" /\ distance = Sqrt(0)

\* C13 witness: the distance returned for a candidate equal to a target whose
\* features are not all zero.
C13_Witness ==
  /\ distance_pc = "returned"
  /\ target_benchmark # None
  /\ infeat = target_benchmark.feature_vector
  /\ DOMAIN infeat = FeatureKeys
  /\ \A key \in DOMAIN infeat : infeat[key] > 0

\* C14: entropy returns 0 exactly when the list has at most one element or
\* holds one label only, and a strictly positive number whenever the list
\* holds two different labels.
C14_ZeroIffOneLabel ==
  entropy_pc = "returned" =>
    LET one == \A i, j \in 1..Len(labels) : labels[i] = labels[j]
    IN  /\ (ent.num = ent.den) <=> one
        /\ ~one => ent.num > ent.den

\* C14 witness: the entropy returned for a list holding two different labels,
\* one of them twice.
C14_Witness ==
  /\ entropy_pc = "returned"
  /\ \E i, j, k \in 1..Len(labels) :
       i # j /\ labels[i] = labels[j] /\ labels[k] # labels[i]

\* C15: every value sample() returns, uniform or normal, is an integer of
\* [0, sample_length]; the normal sampler leaves its loop only with a draw
\* inside the range.
C15_SampleInRange ==
  /\ dist_pc = "returned" => sampled \in 0..distribution.sample_length
  /\ (dist_pc = "while" /\ (sampled < 0 \/ sampled > distribution.sample_length))
       => ~ENABLED NormalReturn

\* C15 witness: a normal sampler returns after drawing outside the range,
\* below it or above it, and redrawing.
C15_Witness ==
  /\ dist_pc = "returned"
  /\ distribution.kind = "normal"
  /\ redraws >= 1

\* C16: what a kernel is masked to does not depend on the kernels masked
\* before it: as a later kernel of the corpus it gets the MaskSequence, and
\* in data_generators.py its holes the order of candidate positions, it gets
\* as the first kernel.
C16_IndependentOfCorpusOrder ==
  /\ (pc = "returned" /\ call.target = "mask") =>
       result = MaskSequenceCall(kernel.seq, training_opts.random_seed, call.max_predictions,
                                 call.random_placed_mask, training_opts).res
  /\ (pc = "loop" /\ impl = "dg" /\ call.target = "hole" /\ masked_lms = <<>>
        /\ visited_indices = {}) =>
       candidate_indexes =
         Shuffle(CandidateRange(impl, call.use_start_end,
                                ActualLength(impl, call.use_start_end, kernel.seq).val),
                 training_opts.random_seed)

\* C17: every result a read_message response has carried is in the backlog,
\* tagged with its source, and what get_backlog returned is the backlog as it
\* was, which only grows.
C17_ReturnedResultsInBacklog ==
  /\ \A res \in responses : \E i \in 1..Len(backlog) : backlog[i] = res
  /\ IsPrefix(served, backlog)

\* C17 witness: two hosts have read results from their queues and get_backlog
\* has returned them.
C17_Witness ==
  /\ \E a, b \in responses : a[1] # b[1]
  /\ Len(served) >= 2
  /\ \A t \in 1..ServerThreads : requests[t].at = "idle"

\* C18: the consumer is handed the elements of the wrapped iterator in their
\* order: all of them when the iteration ends, and all of them followed by
\* the iterator's own exception when the iterator raises after them.
C18_ElementsInOrderThenError ==
  /\ IsPrefix(received, iterator.elements)
  /\ consumer_pc \in {"join", "exhausted"} =>
       received = iterator.elements /\ iterator.error = "none"
  /\ consumer_pc = "raised" =>
       /\ received = iterator.elements
       /\ consumer_raised = iterator.error
       /\ iterator.error # "none"

\* C18 witness: an iterator that raised after two different elements, with
\* both elements waiting in the queue at some time, has raised in the consumer.
C18_Witness ==
  /\ consumer_pc = "raised"
  /\ Len(received) >= 2
  /\ \E i \in 1..(Len(received) - 1) : received[i] # received[i + 1]

RECURSIVE SumBefore(_, _)
\* the sum of 1 - hole_length over the holes placed at positions before p
SumBefore(lms, p) ==
  IF lms = <<>> THEN 0
  ELSE (IF Head(lms).pos_index < p THEN 1 - Head(lms).hole_length ELSE 0)
         + SumBefore(Tail(lms), p)

\* p is the position of a hole placed so far
IsHoleSite(p) == \E k \in 1..Len(masked_lms) : masked_lms[k].pos_index = p

\* C19: in _holeSequence of data_generators.py, after any number of holes,
\* offset_idxs[p] is the sum of 1 - L over the holes placed before p, and
\* every position p < actual_length that is no hole site and is not covered
\* by a hole has its token at input_ids[p + offset_idxs[p]].
C19_OffsetsAlignTokens ==
  (impl = "dg" /\ pc = "loop") =>
    \A p \in 0..(actual_length - 1) :
      /\ offset_idxs[p + 1] = SumBefore(masked_lms, p)
      /\ (~IsHoleSite(p) /\ p \notin visited_indices) =>
           /\ p + offset_idxs[p + 1] \in 0..(Len(input_ids) - 1)
           /\ input_ids[p + offset_idxs[p + 1] + 1] = kernel.seq[p + 1]

\* C19 witness: an empty hole and a hole of two tokens have been placed, and
\* a token after them that no hole covers has moved.
C19_Witness ==
  /\ impl = "dg"
  /\ pc = "loop"
  /\ \E k \in 1..Len(masked_lms) : masked_lms[k].hole_length = 0
  /\ \E k \in 1..Len(masked_lms) : masked_lms[k].hole_length = 2
  /\ \E p \in 0..(actual_length - 1) :
       ~IsHoleSite(p) /\ p \notin visited_indices /\ offset_idxs[p + 1] # 0

\* the pad tokens of s are all trailing
PadsTrail(s) == \A i, j \in 1..Len(s) : (i < j /\ s[i] = padToken) => s[j] = padToken

\* C20: in _holeSequence of data_generators.py, for an input whose pad
\* tokens are all trailing, no run a hole replaces holds a pad token: as a
\* splice takes out the run and puts in the hole token, the buffer still
\* holds every pad token of the input after any number of holes.
C20_HolesLeavePadding ==
  (impl = "dg" /\ pc = "loop" /\ PadsTrail(kernel.seq)) =>
    PyCount(input_ids, padToken) = PyCount(kernel.seq, padToken)

\* C21: every hole length registered with the distribution and recorded for
\* a hole lies in [0, hole_length of the configuration], in both maskers.
C21_HoleLengthInRange ==
  /\ \A k \in 1..Len(masked_lms) : masked_lms[k].hole_length \in 0..MaxHoleLen
  /\ \A v \in DOMAIN sample_counter : v \in 0..MaxHoleLen

\* C22: in _holeSequence of data_generators.py, a hole placed at position pos
\* with a length above 0 has the original token seq[pos] as its target, and
\* an empty hole has the end-hole token.
C22_TargetIsOriginalToken ==
  (impl = "dg" /\ pc = "loop") =>
    \A k \in 1..Len(masked_lms) :
      /\ masked_lms[k].hole_length > 0 =>
           masked_lms[k].token_id = kernel.seq[masked_lms[k].pos_index + 1]
      /\ masked_lms[k].hole_length = 0 => masked_lms[k].token_id = endholeToken

\* C22 witness: a hole with a length above 0 placed at a position whose
\* token an earlier hole had moved in the buffer.
C22_Witness ==
  /\ impl = "dg"
  /\ pc = "loop"
  /\ \E k, l \in 1..Len(masked_lms) :
       /\ l < k
       /\ masked_lms[l].pos_index < masked_lms[k].pos_index
       /\ masked_lms[l].hole_length # 1
       /\ masked_lms[k].hole_length > 0

RECURSIVE PredictionsOf(_)
\* the sum of max(1, hole_length) over the holes placed
PredictionsOf(lms) ==
  IF lms = <<>> THEN 0
  ELSE (IF Head(lms).hole_length > 1 THEN Head(lms).hole_length ELSE 1)
         + PredictionsOf(Tail(lms))

\* C23: in _holeSequence of data_generators.py, holes_to_predict is
\* min(max_predictions, max(1, round(actual_length * masked_lm_prob))),
\* total_predictions is the sum of max(1, hole_length) over the holes placed,
\* the last hole was placed while total_predictions was below
\* holes_to_predict, and there are at most holes_to_predict holes.
C23_HolesWithinBudget ==
  (impl = "dg" /\ pc = "loop") =>
    LET prob == training_opts.masked_lm_prob
        scaled == PyRound(actual_length * prob[1], prob[2])
        wanted == IF scaled < 1 THEN 1 ELSE scaled
    IN  /\ holes_to_predict =
             (IF call.max_predictions < wanted THEN call.max_predictions ELSE wanted)
        /\ total_predictions = PredictionsOf(masked_lms)
        /\ masked_lms # <<>> =>
             PredictionsOf(SubSeq(masked_lms, 1, Len(masked_lms) - 1)) < holes_to_predict
        /\ Len(masked_lms) <= holes_to_predict

\* C23 witness: the loop has stopped at the budget with candidates left, the
\* last hole having taken total_predictions past holes_to_predict.
C23_Witness ==
  /\ impl = "dg"
  /\ pc = "loop"
  /\ candidate_indexes # <<>>
  /\ Len(masked_lms) >= 2
  /\ total_predictions > holes_to_predict

RECURSIVE Rebuilt(_, _, _)
\* the buffer read left to right, target k + 1 being the next one: a mask
\* becomes its prediction, a hole its prediction and a hole, or nothing when
\* the prediction is the end-hole token, any other token stays
Rebuilt(tokens, preds, k) ==
  IF tokens = <<>> THEN <<>>
  ELSE IF Head(tokens) = maskToken
       THEN <<preds[k + 1]>> \o Rebuilt(Tail(tokens), preds, k + 1)
  ELSE IF Head(tokens) = holeToken /\ preds[k + 1] = endholeToken
       THEN Rebuilt(Tail(tokens), preds, k + 1)
  ELSE IF Head(tokens) = holeToken
       THEN <<preds[k + 1], holeToken>> \o Rebuilt(Tail(tokens), preds, k + 1)
  ELSE <<Head(tokens)>> \o Rebuilt(Tail(tokens), preds, k)

\* C24: an updateSampleBatch call of data_generators.py that returns leaves
\* in every slot the buffer rebuilt left to right from the predictions
\* (mask: the prediction; hole: the prediction and a hole, or nothing for
\* end-hole; other tokens copied), padded to max_position_embeddings and cut
\* to sequence_length.
C24_BufferRebuiltLeftToRight ==
  [][\A ids \in ModelOutputs(sampleBatch) :
       (impl = "dg" /\ UpdateSampleBatch(ids) /\ sample_pc' = "gen") =>
         /\ Len(sampleBatch') = Len(sampleBatch)
         /\ \A b \in 1..Len(sampleBatch) :
              LET whole == Rebuilt(sampleBatch[b], ids[b], 0)
                  padded == whole \o [i \in 1..(max_position_embeddings - Len(whole)) |-> padToken]
              IN  sampleBatch'[b] = SubSeq(padded, 1, Min(Len(padded), sampler.sequence_length))]_vars

\* C24 witness: data_generators.py has updated a slot that held two holes,
\* closing one and keeping the other open behind its predicted token.
C24_Witness ==
  /\ impl = "dg"
  /\ sample_pc = "gen"
  /\ steps >= 1
  /\ \E b \in 1..Len(sampleIndices) : \E i, j \in 1..Len(sampleIndices[b]) :
       /\ sampleIndices[b][i] = <<endholeToken>>
       /\ sampleIndices[b][j] = <<Word(0)>>
       /\ \E p \in 1..(Len(sampleBatch[b]) - 1) :
            sampleBatch[b][p] = Word(0) /\ sampleBatch[b][p + 1] = holeToken

\* the targets of the start text, left to right: mask or hole
TargetKinds == SelectSeq(sampler.encoded_start_text, LAMBDA t : t \in {maskToken, holeToken})

\* the targets of the start text still open in slot b, left to right: those
\* without a prediction yet, and the holes whose last prediction is not the
\* end-hole token
OpenTargets(b) ==
  SelectSeq([k \in 1..Len(sampleIndices[b]) |-> k],
            LAMBDA k : \/ sampleIndices[b][k] = <<>>
                       \/ /\ TargetKinds[k] = holeToken
                          /\ sampleIndices[b][k][Len(sampleIndices[b][k])] # endholeToken)

\* C25: an updateSampleBatch call of data_generators.py appends the token
\* predicted for the j-th target of a slot's buffer to the history of the
\* j-th target of the start text that is still open, and to no other history
\* (predictions being ordinary tokens or end-hole, and no target cut off).
C25_HistoryPerTarget ==
  [][\A ids \in ModelOutputs(sampleBatch) :
       (/\ impl = "dg"
        /\ UpdateSampleBatch(ids)
        /\ sample_pc' = "gen"
        /\ \A b \in 1..Len(sampleBatch) :
             /\ Len(SampleMasks(sampleBatch[b])) = Len(OpenTargets(b))
             /\ \A j \in 1..Len(ids[b]) : ids[b][j] \in {endholeToken, Word(0)})
       => \A b \in 1..Len(sampleBatch) : \A k \in 1..Len(sampleIndices[b]) :
            LET open == OpenTargets(b)
                at == {j \in 1..Len(open) : open[j] = k}
            IN  sampleIndices'[b][k] =
                  IF at = {} THEN sampleIndices[b][k]
                  ELSE HistoryAppend(sampleIndices[b][k], ids[b][CHOOSE j \in at : TRUE])]_vars

\* C26: in an updateSampleBatch call of data_generators.py a slot without
\* mask or hole token keeps its buffer and its histories, while every slot
\* that holds a target has the prediction of its first target appended to
\* one of its histories.
C26_SlotsCloseIndependently ==
  [][\A ids \in ModelOutputs(sampleBatch) :
       (impl = "dg" /\ UpdateSampleBatch(ids) /\ sample_pc' = "gen")
       => \A b \in 1..Len(sampleBatch) :
            IF SampleMasks(sampleBatch[b]) = <<>>
            THEN /\ sampleBatch'[b] = sampleBatch[b]
                 /\ sampleIndices'[b] = sampleIndices[b]
            ELSE \E k \in 1..Len(sampleIndices[b]) :
                   sampleIndices'[b][k] = HistoryAppend(sampleIndices[b][k], ids[b][1])]_vars

\* a batch of two after its second update: the first slot was closed by the
\* first update and has one prediction, the second slot has two
C26_Witness ==
  /\ impl = "dg"
  /\ sample_pc = "gen"
  /\ Len(sampleBatch) = 2
  /\ SampleMasks(sampleBatch[1]) = <<>>
  /\ sampleIndices[1] = <<<<endholeToken>>>>
  /\ Len(sampleIndices[2]) = 1
  /\ Len(sampleIndices[2][1]) = 2

\* C27: an updateSampleBatch call of data_generators.py that cuts tokens off
\* a slot's rebuilt buffer (the buffer is longer than sequence_length) logs
\* the warning for that slot.
C27_CropIsWarned ==
  [][\A ids \in ModelOutputs(sampleBatch) :
       (impl = "dg" /\ UpdateSampleBatch(ids) /\ sample_pc' = "gen")
       => \A b \in 1..Len(sampleBatch) :
            Len(Rebuilt(sampleBatch[b], ids[b], 0)) > sampler.sequence_length
              => warnings'[b]]_vars

\* C28: the MaskSequence _maskSequence returns has input_ids as long as seq,
\* and equal to seq at every index that is not the position of a recorded
\* instance.
C28_MaskKeepsOtherTokens ==
  (pc = "returned" /\ call.target = "mask") =>
    /\ Len(result.input_ids) = Len(kernel.seq)
    /\ \A i \in 1..Len(kernel.seq) :
         (\A k \in 1..Len(result.masked_lm_positions) :
            result.masked_lm_weights[k] = 1 => result.masked_lm_positions[k] # i - 1)
         => result.input_ids[i] = kernel.seq[i]

\* a returned mask-mode instance with a position that was written and a
\* token of the sequence that was not recorded
C28_Witness ==
  /\ pc = "returned"
  /\ call.target = "mask"
  /\ \E i \in 1..Len(kernel.seq) : result.input_ids[i] # kernel.seq[i]
  /\ \E i \in 1..Len(kernel.seq) :
       /\ kernel.seq[i] # padToken
       /\ \A k \in 1..Len(result.masked_lm_positions) :
            result.masked_lm_weights[k] = 1 => result.masked_lm_positions[k] # i - 1

RECURSIVE Resolutions(_, _, _)
\* the buffers in which every target, read left to right, target k + 1 being
\* the next one, is either replaced by what its own prediction makes of it
\* or still there
Resolutions(tokens, preds, k) ==
  IF tokens = <<>> THEN {<<>>}
  ELSE IF Head(tokens) \in {maskToken, holeToken}
       THEN {put \o rest : put \in {Replacement(Head(tokens), preds[k + 1]), <<Head(tokens)>>},
                           rest \in Resolutions(Tail(tokens), preds, k + 1)}
  ELSE {<<Head(tokens)>> \o rest : rest \in Resolutions(Tail(tokens), preds, k)}

\* C29: an updateSampleBatch call of tf_bert/data_generator.py that returns
\* leaves in every slot a buffer in which each target of the input buffer is
\* resolved by its own prediction or still present, whatever is predicted.
C29_NoTargetDropped ==
  [][\A ids \in ModelOutputs(sampleBatch) :
       (impl = "tf" /\ UpdateSampleBatch(ids) /\ sample_pc' = "gen")
       => \A b \in 1..Len(sampleBatch) :
            \E r \in Resolutions(sampleBatch[b], ids[b], 0) :
              sampleBatch'[b] = CropSample(r, max_position_embeddings,
                                           sampler.sequence_length)]_vars

\* C30: a result the computing process has appended to a write queue is
\* never lost: it is in the write queue of its source, or in the list a
\* running read_message has read and is about to save and return, or in the
\* backlog.
C30_NoResultLost ==
  \A e \in 1..written :
    (\A i \in 1..Len(read_queue) : read_queue[i][2] # e) =>
      \E s \in DOMAIN write_queues :
        \/ \E i \in 1..Len(write_queues[s]) : write_queues[s][i] = e
        \/ \E t \in 1..ServerThreads :
             /\ requests[t].at \in {"read", "flushed"}
             /\ requests[t].source = s
             /\ \E i \in 1..Len(requests[t].ret) : requests[t].ret[i] = e
        \/ \E i \in 1..Len(backlog) : backlog[i] = <<s, e>>

====
